---- MODULE Spec2Model ----
(***************************************************************************)
(* BaseTrainer (src/python/src/basetrainer.py): the epoch / resume state   *)
(* machine of train, the gradient-accumulation protocol of train_loop, the *)
(* metric normalisation of test_loop and the reporting cadence of          *)
(* write_batch_statistics.                                                 *)
(*                                                                         *)
(* Losses and F1 values are exact rationals <<numerator, denominator>> in  *)
(* lowest terms; tensors are abstracted to the scalar they hold.  The      *)
(* gradient buffers of the model are abstracted to the set of micro-batch  *)
(* indices whose backward pass has been accumulated into them.             *)
(***************************************************************************)
EXTENDS Integers, Sequences, FiniteSets, TLC

\* ------------------------------------------------------------------ bounds
MaxDivider == 3
MaxTrainLen == 4
MaxTestLen == 3
MaxEpochs == 2
MaxPrevEpoch == 1
MaxRuns == 2
MaxOverflows == 1
MaxBatchSize == 3

\* write_batch_statistics reports when batch_index % 100 == 0
ReportEvery == 100

\* the value load_last_checkpoint gives when there is no checkpoint
NoCheckpoint == -1

\* GradScaler() default initial scale
InitScale == 2^16

\* what train_loss_fn / test_loss_fn / f1_metric may return for a micro-batch
LossValues == {1, 2}
TestLossValues == {1}
F1Values == {0, 1}

VARIABLES
    settings,            \* batch_size, batch_size_divider, use_amp,
                         \* write_statistics, epochs
    train_len,           \* len(self.train_dataloader)
    test_len,            \* len(self.test_dataloader)
    strategy,            \* what the surroundings may still do: the values the
                         \* loss strategy and the metric return, the gradient
                         \* overflows and the process restarts still to come
    pc,                  \* position of the control thread
    runs,                \* number of trainer processes started so far
    prev_epoch, check_point_loaded, start_epoch, epochs_num, epoch,
    global_train_index, f1,
    batch_index, real_batch_index, train_loss, batch_loss,
    test_index, test_loss, batches_num,
    grads,               \* micro-batches accumulated in the parameters' .grad
    scaler,              \* the GradScaler's scale factor
    checkpoints,         \* the checkpoint directory: records [epoch, scale]
    scalars,             \* <<tag, step>> of every add_scalar of this run
    trace,               \* calls made so far by the current epoch (before the
                         \* first epoch: by the entry of train), in order
    commits,             \* one record per group closed in the current epoch
    reports,             \* one record per reporting tick of the current epoch
    lossHist,            \* raw training losses of the current epoch
    f1Hist,              \* raw F1 values of the current evaluation
    init_flags,          \* arguments of the train_init calls of this run
    epochs_run,          \* epochs started by this run
    saved_run,           \* epochs checkpointed by this run
    ticks,               \* reporting ticks of this run
    savedAll             \* epochs checkpointed by all runs, in order

cfgVars == <<settings, train_len, test_len>>
trainVars == <<prev_epoch, check_point_loaded, start_epoch, epochs_num, epoch>>
loopVars == <<batch_index, real_batch_index, train_loss, batch_loss>>
testVars == <<test_index, test_loss, batches_num>>
histVars == <<commits, reports, lossHist, f1Hist, init_flags, epochs_run, saved_run, ticks, savedAll>>
vars == <<settings, train_len, test_len, strategy, pc, runs,
          prev_epoch, check_point_loaded, start_epoch, epochs_num, epoch,
          global_train_index, f1,
          batch_index, real_batch_index, train_loss, batch_loss,
          test_index, test_loss, batches_num,
          grads, scaler, checkpoints, scalars, trace,
          commits, reports, lossHist, f1Hist, init_flags, epochs_run, saved_run,
          ticks, savedAll>>

\* ------------------------------------------------------------- arithmetic
RECURSIVE GCD(_, _)
GCD(a, b) == IF b = 0 THEN a ELSE GCD(b, a % b)

\* the rational n/d (n >= 0, d > 0) in lowest terms
Frac(n, d) == LET g == GCD(n, d) IN <<n \div g, d \div g>>

Zero == <<0, 1>>

FAdd(x, y) == Frac(x[1] * y[2] + y[1] * x[2], x[2] * y[2])

FDiv(x, k) == Frac(x[1], x[2] * k)

RECURSIVE SumSeq(_)
SumSeq(s) == IF s = <<>> THEN 0 ELSE s[1] + SumSeq(Tail(s))

CeilDiv(a, b) == (a + b - 1) \div b

Range(s) == {s[i] : i \in 1..Len(s)}

\* ---------------------------------------------------------------- helpers
\* loss /= divider
Normalized(loss, divider) == Frac(loss, divider)

\* the gradient-accumulation test of train_loop
\* (variants: without the last-batch clause; closing at every micro-batch)
ClosesGroupNoTail(index, divider, length) == (index + 1) % divider = 0
ClosesGroupAlways(index, divider, length) == TRUE
ClosesGroup(index, divider, length) ==
    ((index + 1) % divider = 0) \/ (index + 1 = length)

\* the group test of test_loop: it compares with len(self.train_dataloader)
TestClosesGroup(index, divider, trainLength) ==
    ((index + 1) % divider = 0) \/ (index + 1 = trainLength)

\* if batch_index % 100 == 0   (variant: no period)
ReportDueAlways(group) == TRUE
ReportDue(group) == group % ReportEvery = 0

\* self.global_train_index += 1, inside the if of write_batch_statistics
\* (variant: the increment outside the if)
TickIndexAlways(index, due) == index + 1
TickIndex(index, due) == IF due THEN index + 1 ELSE index

\* self.optimizer.zero_grad(set_to_none=True)   (variant: gradients kept)
ZeroGradKeeps(g) == g
ZeroGrad(g) == {}

\* batch_loss.fill_(0.)
ResetGroupLoss(l) == Zero

\* x / k; a tensor divided by 0 is inf or nan, written <<numerator, 0>>
Quot(x, k) == IF k = 0 THEN <<x[1], 0>> ELSE FDiv(x, k)

\* train_loss.item() / real_batch_index   (variant: per micro-batch)
EpochLossPerBatch(total, groups, length) == Quot(total, length)
EpochLoss(total, groups, length) == Quot(total, groups)

\* start_epoch of train   (variant: resuming at the saved epoch itself)
StartEpochSame(prev) == IF prev >= 0 THEN prev ELSE 0
StartEpoch(prev) == IF prev >= 0 THEN prev + 1 ELSE 0

\* check_point_loaded of train   (variant: epoch 0 not counted as found)
CheckPointLoadedStrict(prev) == prev > 0
CheckPointLoaded(prev) == prev >= 0

\* epochs_num = start_epoch + self.epochs
EpochsNum(start, count) == start + count

\* load_last_checkpoint: the highest epoch saved, or the sentinel
LoadLast(cps) ==
    IF cps = {} THEN NoCheckpoint
    ELSE CHOOSE e \in {c.epoch : c \in cps} : \A c \in cps : c.epoch <= e

\* the scaler state load_last_checkpoint restores
LoadedScale(cps, current) ==
    IF cps = {} THEN current
    ELSE (CHOOSE c \in cps : c.epoch = LoadLast(cps)).scale

\* save_checkpoint(name, epoch, model, optimizer, scaler, path)
Saved(cps, e, scale) ==
    {c \in cps : c.epoch # e} \cup {[epoch |-> e, scale |-> scale]}

\* the epoch index train passes to save_checkpoint   (variant: the next index)
CheckpointEpochNext(e) == e + 1
CheckpointEpoch(e) == e

\* GradScaler.update after a step that found overflowed gradients
\* (variant: scaler.update() left out)
BackoffNone(scale) == scale
Backoff(scale) == scale \div 2

\* batch_size = self.settings.batch_size // self.settings.batch_size_divider
\* (variant: the batch size passed on undivided)
MicroBatchSizeUndivided(batch_size, divider) == batch_size
MicroBatchSize(batch_size, divider) == batch_size \div divider

\* DataLoader(dataset, batch_size=...) raises ValueError unless the batch size
\* is a positive integer
DataLoaderRejects(batch_size) == batch_size <= 0

\* the backward call of a micro-batch   (variant: always through the scaler)
BackwardCallScaled(use_amp) == "scaler.scale.backward"
BackwardCall(use_amp) ==
    IF use_amp THEN "scaler.scale.backward" ELSE "loss.backward"

\* the steps of train_loop at a micro-batch that closes a group, in order
\* (variant: the statistics written after the optimizer step)
CloseOrderStepFirst == <<"tl_step", "tl_stats", "tl_clear">>
CloseOrder == <<"tl_stats", "tl_step", "tl_clear">>

\* the position after closing step p
AfterClose(p) ==
    LET i == CHOOSE j \in 1..Len(CloseOrder) : CloseOrder[j] = p
    IN IF i < Len(CloseOrder) THEN CloseOrder[i + 1] ELSE "tl_batch"

\* a Python number divided by the integer 0 raises ZeroDivisionError
\* (variants: the quotient taken without an exception, as for a tensor)
TrainDivisionFailsNever(divisor) == FALSE
TrainDivisionFails(divisor) == divisor = 0
TestDivisionFailsNever(divisor) == FALSE
TestDivisionFails(divisor) == divisor = 0

\* self.f1 = 0   (variant: the reset left out)
ResetF1Keeps(score) == score
ResetF1(score) == Zero

\* -------------------------------------------------------------------- Init
\* the fields as BaseTrainer.__init__ sets them, for the given sets of inputs;
\* Construct decides whether the construction succeeds
Constructed(Bs, Ds, Ns, Ms, Es, Ps, As, Ws, Ls, Fs, overflows, restarts) ==
    /\ settings \in [batch_size : Bs, batch_size_divider : Ds, use_amp : As,
                     write_statistics : Ws, epochs : Es]
    /\ train_len \in Ns
    /\ test_len \in Ms
    /\ strategy = [losses |-> Ls, f1s |-> Fs, overflows |-> overflows,
                   restarts |-> restarts]
    /\ \E p \in Ps :
          checkpoints = IF p < 0 THEN {} ELSE {[epoch |-> p, scale |-> InitScale]}
    /\ pc = "new"
    /\ runs = 1
    /\ prev_epoch = NoCheckpoint
    /\ check_point_loaded = FALSE
    /\ start_epoch = 0
    /\ epochs_num = 0
    /\ epoch = 0
    /\ global_train_index = 0
    /\ f1 = Zero
    /\ batch_index = 0
    /\ real_batch_index = 0
    /\ train_loss = Zero
    /\ batch_loss = Zero
    /\ test_index = 0
    /\ test_loss = Zero
    /\ batches_num = 0
    /\ grads = {}
    /\ scaler = InitScale
    /\ scalars = <<>>
    /\ trace = <<>>
    /\ commits = <<>>
    /\ reports = <<>>
    /\ lossHist = <<>>
    /\ f1Hist = <<>>
    /\ init_flags = <<>>
    /\ epochs_run = <<>>
    /\ saved_run = <<>>
    /\ ticks = 0
    /\ savedAll = <<>>

\* every divider and loader length, one epoch from an empty checkpoint directory
InitLoops ==
    Constructed({MaxDivider}, 1..MaxDivider, 0..MaxTrainLen, 0..MaxTestLen, {1},
                {NoCheckpoint}, BOOLEAN, BOOLEAN, LossValues, F1Values,
                MaxOverflows, 0)

\* every epoch count and prior checkpoint, with restarts, for one loader shape
InitResume ==
    Constructed({2}, {2}, {3}, {2}, 0..MaxEpochs, NoCheckpoint..MaxPrevEpoch,
                {FALSE}, {TRUE}, {1}, F1Values, 0, MaxRuns - 1)

\* loaders long enough for the reporting period to elapse twice
InitCadence ==
    Constructed({2}, {1, 2}, {2 * ReportEvery + 1}, {1}, {1}, {NoCheckpoint},
                BOOLEAN, BOOLEAN, {1}, {1}, 0, 1)

\* divider 4 over ten micro-batches of loss 1
InitScenario ==
    Constructed({4}, {4}, {10}, {10}, {1}, {NoCheckpoint}, {FALSE}, {TRUE}, {1}, {1},
                0, 0)

\* every batch size against every divider, for one short loader
InitConfig ==
    Constructed(1..MaxBatchSize, 1..MaxDivider, {1}, {1}, {1}, {NoCheckpoint},
                {FALSE}, {FALSE}, {1}, {1}, 0, 0)

Init == InitLoops \/ InitResume \/ InitScenario \/ InitConfig

\* ----------------------------------------------------------------- actions
\* BaseTrainer.__init__: the micro-batch size and the two DataLoaders
Construct ==
    /\ pc = "new"
    /\ pc' = IF DataLoaderRejects(MicroBatchSize(settings.batch_size,
                                                  settings.batch_size_divider))
             THEN "failed" ELSE "constructed"
    /\ UNCHANGED <<cfgVars, strategy, runs, trainVars, global_train_index, f1,
                   loopVars, testVars, grads, scaler, checkpoints, scalars,
                   trace, histVars>>

\* train, up to the checkpoint query and the epoch range
LoadCheckpoint ==
    /\ pc = "constructed"
    /\ prev_epoch' = LoadLast(checkpoints)
    /\ scaler' = LoadedScale(checkpoints, scaler)
    /\ check_point_loaded' = CheckPointLoaded(prev_epoch')
    /\ start_epoch' = StartEpoch(prev_epoch')
    /\ epochs_num' = EpochsNum(start_epoch', settings.epochs)
    /\ trace' = Append(trace, "load_last_checkpoint")
    /\ pc' = "loaded"
    /\ UNCHANGED <<cfgVars, strategy, runs, epoch, global_train_index, f1,
                   loopVars, testVars, grads, checkpoints, scalars, histVars>>

\* self.train_init(check_point_loaded); self.global_train_index = 0
TrainInit ==
    /\ pc = "loaded"
    /\ init_flags' = Append(init_flags, check_point_loaded)
    /\ global_train_index' = 0
    /\ ticks' = 0
    /\ epoch' = start_epoch
    /\ trace' = Append(trace, "train_init")
    /\ pc' = "epoch"
    /\ UNCHANGED <<cfgVars, strategy, runs, prev_epoch, check_point_loaded,
                   start_epoch, epochs_num, f1, loopVars, testVars, grads,
                   scaler, checkpoints, scalars, commits, reports,
                   lossHist, f1Hist, epochs_run, saved_run, savedAll>>

\* for epoch in range(start_epoch, epochs_num), and the entry of train_loop
EpochHead ==
    /\ pc = "epoch"
    /\ IF epoch < epochs_num
       THEN /\ pc' = "tl_batch"
            /\ epochs_run' = Append(epochs_run, epoch)
            /\ batch_index' = 0
            /\ real_batch_index' = 0
            /\ train_loss' = Zero
            /\ batch_loss' = Zero
            /\ trace' = <<>>
            /\ commits' = <<>>
            /\ reports' = <<>>
            /\ lossHist' = <<>>
       ELSE /\ pc' = "done"
            /\ UNCHANGED <<epochs_run, loopVars, trace, commits, reports, lossHist>>
    /\ UNCHANGED <<cfgVars, strategy, runs, trainVars, global_train_index, f1,
                   testVars, grads, scaler, checkpoints, scalars, f1Hist,
                   init_flags, saved_run, ticks, savedAll>>

\* one micro-batch of train_loop: loss, normalisation, accumulation, backward
TrainBatch ==
    /\ pc = "tl_batch"
    /\ batch_index < train_len
    /\ \E loss \in strategy.losses :
          LET l == Normalized(loss, settings.batch_size_divider) IN
          /\ train_loss' = FAdd(train_loss, l)
          /\ batch_loss' = FAdd(batch_loss, l)
          /\ lossHist' = Append(lossHist, loss)
    /\ grads' = grads \cup {batch_index}
    /\ trace' = Append(trace, BackwardCall(settings.use_amp))
    /\ IF ClosesGroup(batch_index, settings.batch_size_divider, train_len)
       THEN pc' = CloseOrder[1] /\ batch_index' = batch_index
       ELSE pc' = "tl_batch" /\ batch_index' = batch_index + 1
    /\ UNCHANGED <<cfgVars, strategy, runs, trainVars, global_train_index, f1,
                   real_batch_index, testVars, scaler, checkpoints, scalars,
                   commits, reports, f1Hist, init_flags, epochs_run, saved_run,
                   ticks, savedAll>>

\* if self.settings.write_statistics: self.write_batch_statistics(...)
WriteStatistics ==
    /\ pc = "tl_stats"
    /\ LET due == settings.write_statistics /\ ReportDue(real_batch_index) IN
       /\ global_train_index' = TickIndex(global_train_index, due)
       /\ IF due
          THEN /\ scalars' = Append(scalars, <<"Loss/train", global_train_index>>)
               /\ reports' = Append(reports,
                     [group |-> real_batch_index, at |-> batch_index,
                      step |-> global_train_index, loss |-> batch_loss,
                      grads |-> grads, updates |-> Len(commits)])
               /\ ticks' = ticks + 1
               /\ trace' = Append(trace, "report")
          ELSE UNCHANGED <<scalars, reports, ticks, trace>>
    /\ pc' = AfterClose("tl_stats")
    /\ UNCHANGED <<cfgVars, strategy, runs, trainVars, f1, loopVars, testVars,
                   grads, scaler, checkpoints, commits, lossHist, f1Hist,
                   init_flags, epochs_run, saved_run, savedAll>>

\* the optimizer step of a closed group
OptimizerStep ==
    /\ pc = "tl_step"
    /\ IF settings.use_amp
       THEN \E overflow \in (IF strategy.overflows > 0 THEN BOOLEAN ELSE {FALSE}) :
               /\ scaler' = IF overflow THEN Backoff(scaler) ELSE scaler
               /\ commits' = Append(commits,
                     [group |-> real_batch_index, at |-> batch_index,
                      grads |-> grads, applied |-> ~overflow, scaled |-> TRUE,
                      scale |-> <<scaler, scaler'>>])
               /\ strategy' = IF overflow
                              THEN [strategy EXCEPT !.overflows = @ - 1]
                              ELSE strategy
               /\ trace' = trace \o <<"scaler.step", "scaler.update">>
       ELSE /\ commits' = Append(commits,
                     [group |-> real_batch_index, at |-> batch_index,
                      grads |-> grads, applied |-> TRUE, scaled |-> FALSE,
                      scale |-> <<scaler, scaler>>])
            /\ trace' = Append(trace, "optimizer.step")
            /\ UNCHANGED <<scaler, strategy>>
    /\ pc' = AfterClose("tl_step")
    /\ UNCHANGED <<cfgVars, runs, trainVars, global_train_index, f1, loopVars,
                   testVars, grads, checkpoints, scalars, reports, lossHist,
                   f1Hist, init_flags, epochs_run, saved_run, ticks, savedAll>>

\* zero_grad, real_batch_index += 1, batch_loss.fill_(0.), and the next index
ClearGradients ==
    /\ pc = "tl_clear"
    /\ grads' = ZeroGrad(grads)
    /\ real_batch_index' = real_batch_index + 1
    /\ batch_loss' = ResetGroupLoss(batch_loss)
    /\ batch_index' = batch_index + 1
    /\ trace' = Append(trace, "zero_grad")
    /\ pc' = AfterClose("tl_clear")
    /\ UNCHANGED <<cfgVars, strategy, runs, trainVars, global_train_index, f1,
                   train_loss, testVars, scaler, checkpoints, scalars, commits,
                   reports, lossHist, f1Hist, init_flags, epochs_run, saved_run,
                   ticks, savedAll>>

\* train_loss = train_loss.item() / real_batch_index; return train_loss
TrainLoopReturn ==
    /\ pc = "tl_batch"
    /\ batch_index >= train_len
    /\ IF TrainDivisionFails(real_batch_index)
       THEN /\ pc' = "failed"
            /\ trace' = Append(trace, "train_loop.ZeroDivisionError")
            /\ UNCHANGED train_loss
       ELSE /\ train_loss' = EpochLoss(train_loss, real_batch_index, train_len)
            /\ trace' = Append(trace, "train_loop.return")
            /\ pc' = "trained"
    /\ UNCHANGED <<cfgVars, strategy, runs, trainVars, global_train_index, f1,
                   batch_index, real_batch_index, batch_loss, testVars, grads,
                   scaler, checkpoints, scalars, histVars>>

\* print and log the train loss, self.f1 = 0, and the entry of test_loop
LogTrainLoss ==
    /\ pc = "trained"
    /\ scalars' = IF settings.write_statistics
                  THEN Append(scalars, <<"Loss/train", epoch>>)
                  ELSE scalars
    /\ trace' = Append(trace, "log_train")
    /\ f1' = ResetF1(f1)
    /\ test_index' = 0
    /\ test_loss' = Zero
    /\ batches_num' = 0
    /\ f1Hist' = <<>>
    \* the locals of train_loop are gone, train_loss is not read again
    /\ batch_index' = 0
    /\ real_batch_index' = 0
    /\ train_loss' = Zero
    /\ commits' = <<>>
    /\ reports' = <<>>
    /\ lossHist' = <<>>
    /\ pc' = "te_batch"
    /\ UNCHANGED <<cfgVars, strategy, runs, trainVars, global_train_index,
                   batch_loss, grads, scaler, checkpoints, init_flags,
                   epochs_run, saved_run, ticks, savedAll>>

\* one micro-batch of test_loop
TestBatch ==
    /\ pc = "te_batch"
    /\ test_index < test_len
    /\ \E loss_value \in TestLossValues, score \in strategy.f1s :
          /\ f1' = FAdd(f1, Frac(score, settings.batch_size_divider))
          /\ test_loss' = FAdd(test_loss,
                               Normalized(loss_value, settings.batch_size_divider))
          /\ f1Hist' = Append(f1Hist, score)
    /\ batches_num' =
          IF TestClosesGroup(test_index, settings.batch_size_divider, train_len)
          THEN batches_num + 1 ELSE batches_num
    /\ test_index' = test_index + 1
    /\ trace' = Append(trace, "eval")
    /\ UNCHANGED <<cfgVars, strategy, pc, runs, trainVars, global_train_index,
                   loopVars, grads, scaler, checkpoints, scalars, commits,
                   reports, lossHist, init_flags, epochs_run, saved_run, ticks,
                   savedAll>>

\* test_loss /= batches_num; return test_loss, batches_num
TestLoopReturn ==
    /\ pc = "te_batch"
    /\ test_index >= test_len
    /\ IF TestDivisionFails(batches_num)
       THEN /\ pc' = "failed"
            /\ trace' = Append(trace, "test_loop.ZeroDivisionError")
            /\ UNCHANGED test_loss
       ELSE /\ test_loss' = Quot(test_loss, batches_num)
            /\ trace' = Append(trace, "test_loop.return")
            /\ pc' = "tested"
    /\ UNCHANGED <<cfgVars, strategy, runs, trainVars, global_train_index, f1,
                   loopVars, test_index, batches_num, grads, scaler, checkpoints,
                   scalars, histVars>>

\* self.f1 /= batches_num, print and log the test loss and the F1
LogTest ==
    /\ pc = "tested"
    /\ f1' = Quot(f1, batches_num)
    /\ scalars' = IF settings.write_statistics
                  THEN scalars \o <<<<"Loss/test", epoch>>, <<"F1/test", epoch>>>>
                  ELSE scalars
    /\ trace' = Append(trace, "log_test")
    /\ pc' = "save"
    /\ UNCHANGED <<cfgVars, strategy, runs, trainVars, global_train_index,
                   loopVars, testVars, grads, scaler, checkpoints, histVars>>

\* save_checkpoint(name, epoch, ...), and the next epoch index
SaveCheckpoint ==
    /\ pc = "save"
    /\ checkpoints' = Saved(checkpoints, CheckpointEpoch(epoch), scaler)
    /\ saved_run' = Append(saved_run, epoch)
    /\ savedAll' = Append(savedAll, epoch)
    /\ trace' = Append(trace, "save_checkpoint")
    /\ epoch' = epoch + 1
    \* the locals of test_loop are gone
    /\ test_index' = 0
    /\ test_loss' = Zero
    /\ batches_num' = 0
    /\ f1Hist' = <<>>
    /\ pc' = "epoch"
    /\ UNCHANGED <<cfgVars, strategy, runs, prev_epoch, check_point_loaded,
                   start_epoch, epochs_num, global_train_index, f1, loopVars,
                   grads, scaler, scalars, commits, reports, lossHist,
                   init_flags, epochs_run, ticks>>

\* an exception of a collaborator (loss strategy, optimizer, sink, gateway)
\* propagates out of train
Raise ==
    /\ pc \notin {"done", "failed"}
    /\ pc' = "failed"
    /\ UNCHANGED <<cfgVars, strategy, runs, trainVars, global_train_index, f1,
                   loopVars, testVars, grads, scaler, checkpoints, scalars,
                   trace, histVars>>

\* the process ends and a new trainer is constructed on the same checkpoint
\* directory with the same settings
Restart ==
    /\ pc \in {"done", "failed"}
    /\ strategy.restarts > 0
    /\ strategy' = [strategy EXCEPT !.restarts = @ - 1]
    /\ runs' = runs + 1
    /\ pc' = "new"
    /\ prev_epoch' = NoCheckpoint
    /\ check_point_loaded' = FALSE
    /\ start_epoch' = 0
    /\ epochs_num' = 0
    /\ epoch' = 0
    /\ global_train_index' = 0
    /\ f1' = Zero
    /\ batch_index' = 0
    /\ real_batch_index' = 0
    /\ train_loss' = Zero
    /\ batch_loss' = Zero
    /\ test_index' = 0
    /\ test_loss' = Zero
    /\ batches_num' = 0
    /\ grads' = {}
    /\ scaler' = InitScale
    /\ scalars' = <<>>
    /\ trace' = <<>>
    /\ commits' = <<>>
    /\ reports' = <<>>
    /\ lossHist' = <<>>
    /\ f1Hist' = <<>>
    /\ init_flags' = <<>>
    /\ epochs_run' = <<>>
    /\ saved_run' = <<>>
    /\ ticks' = 0
    /\ UNCHANGED <<cfgVars, checkpoints, savedAll>>

Next ==
    \/ Construct
    \/ LoadCheckpoint
    \/ TrainInit
    \/ EpochHead
    \/ TrainBatch
    \/ WriteStatistics
    \/ OptimizerStep
    \/ ClearGradients
    \/ TrainLoopReturn
    \/ LogTrainLoss
    \/ TestBatch
    \/ TestLoopReturn
    \/ LogTest
    \/ SaveCheckpoint
    \/ Raise
    \/ Restart

Spec == Init /\ [][Next]_vars

SpecCadence == InitCadence /\ [][Next]_vars

\* ------------------------------------------------------------- properties
Min(a, b) == IF a < b THEN a ELSE b

Divider == settings.batch_size_divider

\* positions inside train_loop, from the first micro-batch to its return
TrainPcs == {"tl_batch", "tl_stats", "tl_step", "tl_clear", "trained"}

\* the last micro-batch of the k-th accumulation group (k = 1, 2, ...) of a
\* loader of n micro-batches: index k*d - 1, or the final micro-batch
GroupEnd(k, d, n) == Min(k * d, n) - 1

GroupEnds(d, n) == {GroupEnd(k, d, n) : k \in 1..CeilDiv(n, d)}

\* the micro-batches at which a commit has been issued so far
CommittedAt == {commits[k].at : k \in 1..Len(commits)}

\* the group ends passed so far in the current train_loop
ClosedSoFar ==
    {i \in GroupEnds(Divider, train_len) : i < batch_index}
        \cup (IF pc = "tl_clear" THEN {batch_index} ELSE {})

BackwardEvents == {"loss.backward", "scaler.scale.backward"}
StepEvents == {"optimizer.step", "scaler.step"}

\* one commit per closed group and none elsewhere; gradients hold nothing of
\* an earlier group; every step is followed by zero_grad before any backward
CommitProtocol ==
    pc \in TrainPcs =>
        /\ CommittedAt = ClosedSoFar
        /\ Len(commits) = Cardinality(ClosedSoFar)
        /\ pc \in {"tl_batch", "trained"} =>
              grads = (Divider * real_batch_index)..(batch_index - 1)
        /\ \A p, q \in 1..Len(trace) :
              (p < q /\ trace[p] \in StepEvents /\ trace[q] \in BackwardEvents)
                  => \E r \in (p + 1)..(q - 1) : trace[r] = "zero_grad"

\* C1 (as stated): in every training epoch, for both use_amp settings, the
\* optimizer is stepped exactly once per closed accumulation group, gradients
\* are cleared right after that step and before the next group's first
\* backward, and no step happens at a micro-batch that closes no group.
C1_SteppedOncePerGroup ==
    /\ CommitProtocol
    /\ pc \in TrainPcs => \A k \in 1..Len(commits) : commits[k].applied

\* C1 (amended): exactly one optimizer commit is issued per closed group and
\* none elsewhere (optimizer.step() without AMP, which always updates;
\* scaler.step + scaler.update with AMP, which updates unless the group's
\* gradients overflowed), and gradients are cleared right after it, before
\* the next group's first backward.
C1_CommitOncePerGroup ==
    /\ CommitProtocol
    /\ pc \in TrainPcs =>
          \A k \in 1..Len(commits) :
              /\ commits[k].scaled = settings.use_amp
              /\ ~commits[k].scaled => commits[k].applied

\* a second group has been committed and cleared, under AMP
C1_Witness ==
    /\ pc = "tl_batch"
    /\ settings.use_amp
    /\ Len(commits) = 2
    /\ Divider = 2
    /\ grads = {}

\* C2: the gradients present at a commit come from exactly d consecutive
\* micro-batches, from fewer only for the trailing group, never from more;
\* each micro-batch's gradient is part of exactly one commit.
C2_GroupGradients ==
    pc \in TrainPcs =>
        /\ \A k \in 1..Len(commits) :
              LET g == commits[k].grads IN
              /\ g = ((k - 1) * Divider)..(Min(k * Divider, train_len) - 1)
              /\ Cardinality(g) <= Divider
              /\ Cardinality(g) < Divider => commits[k].at = train_len - 1
        /\ \A i \in 0..(train_len - 1) :
              Cardinality({k \in 1..Len(commits) : i \in commits[k].grads}) <= 1
        /\ pc = "trained" =>
              \A i \in 0..(train_len - 1) :
                  Cardinality({k \in 1..Len(commits) : i \in commits[k].grads}) = 1

\* a full group followed by a trailing partial group, both committed
C2_Witness ==
    /\ pc = "trained"
    /\ Divider = 3
    /\ train_len = 4
    /\ Len(commits) = 2
    /\ commits[2].grads = {3}

\* C3: a group is closed at micro-batch i exactly when (i+1) is a multiple of
\* the divider or i is the last micro-batch; the trailing partial group is
\* committed, the epoch ends with no uncommitted gradients, and ceil(n/d)
\* groups are closed (d = 4, n = 10: at micro-batches 3, 7 and 9).
C3_GroupClosing ==
    /\ pc \in TrainPcs =>
          CommittedAt \cup (IF pc \in {"tl_stats", "tl_step"} THEN {batch_index} ELSE {})
              = {i \in 0..(train_len - 1) :
                    /\ i < batch_index \/ (i = batch_index /\ pc # "tl_batch")
                    /\ ((i + 1) % Divider = 0 \/ i = train_len - 1)}
    /\ (pc \in {"tl_batch", "trained"} /\ batch_index >= train_len) =>
          /\ real_batch_index = CeilDiv(train_len, Divider)
          /\ Len(commits) = CeilDiv(train_len, Divider)
          /\ grads = {}
          /\ \A i \in 0..(train_len - 1) : \E k \in 1..Len(commits) : i \in commits[k].grads
    /\ (pc = "trained" /\ Divider = 4 /\ train_len = 10) => CommittedAt = {3, 7, 9}

\* the loop over ten micro-batches with divider 4 has returned
C3_Witness ==
    /\ pc = "trained"
    /\ Divider = 4
    /\ train_len = 10
    /\ Len(commits) = 3
    /\ commits[3].grads = {8, 9}

\* C4: train_loop returns the sum of loss_i / divider over all micro-batches,
\* divided by the number of groups closed; the epoch accumulator is not reset
\* at group boundaries, the group accumulator is (d = 4, ten losses of 1:
\* (10 * 1/4) / 3 = 5/6).
C4_EpochLoss ==
    /\ pc = "trained" =>
          /\ Len(lossHist) = train_len
          /\ train_loss = Frac(SumSeq(lossHist), Divider * Len(commits))
          /\ train_loss = Frac(SumSeq(lossHist), Divider * CeilDiv(train_len, Divider))
    /\ pc \in {"tl_batch", "tl_stats", "tl_step", "tl_clear"} =>
          train_loss = Frac(SumSeq(lossHist), Divider)
    /\ (pc = "tl_batch" /\ batch_index % Divider = 0) => batch_loss = Zero
    /\ (pc = "trained" /\ Divider = 4 /\ train_len = 10) => train_loss = <<5, 6>>

\* the scenario's loop has returned 5/6
C4_Witness ==
    /\ pc = "trained"
    /\ Divider = 4
    /\ train_len = 10
    /\ lossHist = [i \in 1..10 |-> 1]
    /\ train_loss = <<5, 6>>

\* unequal losses over a full and a partial group
C4_WitnessMixed ==
    /\ pc = "trained"
    /\ Divider = 2
    /\ lossHist = <<1, 2, 2>>
    /\ train_loss = <<5, 4>>

\* C5: when the gateway reports a last saved epoch e >= 0, a train call with
\* epochs = E runs exactly the epochs e+1 .. e+E in increasing order and saves
\* exactly one checkpoint for each of them and no other; over chained runs no
\* epoch index is checkpointed twice or skipped.
C5_ResumeEpochs ==
    /\ prev_epoch >= 0 =>
          /\ Len(epochs_run) <= settings.epochs
          /\ \A i \in 1..Len(epochs_run) : epochs_run[i] = prev_epoch + i
          /\ Len(saved_run) <= Len(epochs_run)
          /\ \A i \in 1..Len(saved_run) : saved_run[i] = prev_epoch + i
          /\ \A c \in checkpoints : c.epoch <= prev_epoch + Len(saved_run)
    /\ (prev_epoch >= 0 /\ pc = "done") =>
          /\ Len(epochs_run) = settings.epochs
          /\ saved_run = epochs_run
    /\ \A i \in 1..(Len(savedAll) - 1) : savedAll[i + 1] = savedAll[i] + 1
    /\ Range(savedAll) \subseteq {c.epoch : c \in checkpoints}

\* a second run has resumed after epoch 2 and completed epochs 3 and 4
C5_Witness ==
    /\ pc = "done"
    /\ runs = 2
    /\ prev_epoch = 2
    /\ epochs_run = <<3, 4>>
    /\ saved_run = <<3, 4>>
    /\ savedAll = <<1, 2, 3, 4>>

\* a checkpoint that was in the directory before this run started
PriorFound == \E c \in checkpoints : c.epoch \notin Range(saved_run)

\* C6: without a checkpoint training starts at epoch 0; in every train call
\* train_init is invoked exactly once, after the checkpoint query and before
\* the first epoch, with check_point_loaded true iff a prior epoch was found,
\* also when epochs = 0.
C6_InitHook ==
    /\ pc \in {"new", "constructed"} => (init_flags = <<>> /\ trace = <<>>)
    /\ pc = "loaded" => (init_flags = <<>> /\ trace = <<"load_last_checkpoint">>)
    /\ pc \notin {"new", "constructed", "loaded", "failed"} =>
          init_flags = <<PriorFound>>
    /\ (pc = "epoch" /\ epochs_run = <<>>) =>
          trace = <<"load_last_checkpoint", "train_init">>
    /\ pc = "failed" =>
          /\ Len(init_flags) <= 1
          /\ epochs_run # <<>> => Len(init_flags) = 1
          /\ Len(init_flags) = 1 => init_flags[1] = PriorFound
    /\ (~PriorFound /\ epochs_run # <<>>) => epochs_run[1] = 0
    /\ (~PriorFound /\ pc \notin {"new", "constructed", "failed"}) =>
          start_epoch = 0

\* a call with epochs = 0 on a directory holding epoch 0 has ended
C6_Witness ==
    /\ pc = "done"
    /\ settings.epochs = 0
    /\ prev_epoch = 0
    /\ init_flags = <<TRUE>>
    /\ epochs_run = <<>>

\* the calls of the epoch started last (none before the first epoch)
EpochTrace == IF epochs_run = <<>> THEN <<>> ELSE trace

Count(t, events) == Cardinality({p \in 1..Len(t) : t[p] \in events})

TrainEvents ==
    BackwardEvents \cup StepEvents \cup {"report", "scaler.update", "zero_grad"}

\* the steps of an epoch in the order of the code: 1 training micro-batches,
\* 2 return of train_loop, 3 train loss logged, 4 evaluation micro-batches,
\* 5 return of test_loop, 6 test loss and F1 logged, 7 checkpoint saved
Phase(e) ==
    CASE e \in TrainEvents -> 1
      [] e \in {"train_loop.return", "train_loop.ZeroDivisionError"} -> 2
      [] e = "log_train" -> 3
      [] e = "eval" -> 4
      [] e \in {"test_loop.return", "test_loop.ZeroDivisionError"} -> 5
      [] e = "log_test" -> 6
      [] e = "save_checkpoint" -> 7

\* the order as claimed: 1 training, 2 evaluation, 3 epoch-level logging, 4 save
ClaimedPhase(e) ==
    CASE e \in TrainEvents
              \cup {"train_loop.return", "train_loop.ZeroDivisionError"} -> 1
      [] e \in {"eval", "test_loop.return", "test_loop.ZeroDivisionError"} -> 2
      [] e \in {"log_train", "log_test"} -> 3
      [] e = "save_checkpoint" -> 4

\* a checkpoint of epoch k exists only once k was trained and evaluated; a
\* failure ends the run
SaveAfterEpoch ==
    /\ Len(saved_run) <= Len(epochs_run)
    /\ \A i \in 1..Len(saved_run) : saved_run[i] = epochs_run[i]
    /\ epochs_run # <<>> =>
          LET t == trace
              last == epochs_run[Len(epochs_run)]
          IN /\ (Len(saved_run) = Len(epochs_run)) <=> (Count(t, {"save_checkpoint"}) = 1)
             /\ Len(saved_run) >= Len(epochs_run) - 1
             /\ Count(t, {"save_checkpoint"}) = 0 =>
                   \A c \in checkpoints : c.epoch < last
             /\ Count(t, {"save_checkpoint"}) = 1 =>
                   /\ Count(t, BackwardEvents) = train_len
                   /\ Count(t, {"eval"}) = test_len
                   /\ Count(t, {"train_loop.return"}) = 1
                   /\ Count(t, {"test_loop.return"}) = 1
                   /\ Count(t, {"log_train"}) = 1
                   /\ Count(t, {"log_test"}) = 1
                   /\ \E c \in checkpoints : c.epoch = last

\* once failed, the run starts nothing more; saved checkpoints stay saved
FailureEndsRun ==
    /\ pc = "failed" =>
          \/ UNCHANGED <<pc, epochs_run, saved_run, checkpoints>>
          \/ (pc' = "new" /\ checkpoints' = checkpoints)
    /\ \A c \in checkpoints : c \in checkpoints'

\* C7 (as stated): in each epoch all training micro-batches come first, then
\* all evaluation micro-batches, then the epoch-level loss/F1 logging, then
\* the checkpoint save; a checkpoint of epoch k is saved only after k's
\* training and evaluation completed.
C7_LoggingAfterEvaluation ==
    /\ \A p, q \in 1..Len(EpochTrace) :
          p < q => ClaimedPhase(EpochTrace[p]) <= ClaimedPhase(EpochTrace[q])
    /\ SaveAfterEpoch

\* C7 (amended): in each epoch the order is: all training micro-batches, the
\* epoch's train loss logged, all evaluation micro-batches, the test loss and
\* F1 logged, the checkpoint save; a checkpoint of epoch k is saved only after
\* k's training and evaluation completed; a failing step ends the run with no
\* later epoch started and the earlier checkpoints still saved.
C7_EpochOrder ==
    /\ [](/\ \A p, q \in 1..Len(EpochTrace) :
                p < q =>
                   /\ Phase(EpochTrace[p]) <= Phase(EpochTrace[q])
                   /\ Phase(EpochTrace[p]) = Phase(EpochTrace[q])
                         => Phase(EpochTrace[p]) \in {1, 4}
          /\ \A p \in 1..Len(EpochTrace) :
                /\ Phase(EpochTrace[p]) >= 2 =>
                      Count(EpochTrace, BackwardEvents) = train_len
                /\ Phase(EpochTrace[p]) >= 3 =>
                      Count(EpochTrace, {"train_loop.return"}) = 1
                /\ Phase(EpochTrace[p]) >= 4 => Count(EpochTrace, {"log_train"}) = 1
                /\ Phase(EpochTrace[p]) >= 5 => Count(EpochTrace, {"eval"}) = test_len
                /\ Phase(EpochTrace[p]) >= 6 =>
                      Count(EpochTrace, {"test_loop.return"}) = 1
                /\ Phase(EpochTrace[p]) >= 7 => Count(EpochTrace, {"log_test"}) = 1
          /\ SaveAfterEpoch)
    /\ [][FailureEndsRun]_vars

\* the second epoch of a run has been checkpointed after training and
\* evaluating, the first epoch's checkpoint still there
C7_Witness ==
    /\ pc = "epoch"
    /\ Len(saved_run) = 2
    /\ trace = <<"loss.backward", "loss.backward", "report", "optimizer.step",
                 "zero_grad", "loss.backward", "optimizer.step", "zero_grad",
                 "train_loop.return", "log_train", "eval", "eval",
                 "test_loop.return", "log_test", "save_checkpoint">>
    /\ \E c \in checkpoints : c.epoch = saved_run[1]

\* the accumulation groups of the current train_loop whose statistics point
\* (line 119) has been passed are 0 .. StatsPassed
StatsPassed ==
    IF pc \in {"tl_step", "tl_clear"} THEN real_batch_index ELSE real_batch_index - 1

ReportedGroups == {reports[k].group : k \in 1..Len(reports)}

\* C8: with write_statistics enabled a report is made exactly on the group
\* commits whose group index is 0, 100, 200, ..., on no commit in between and
\* on no micro-batch that closes no group; with it disabled, never.
C8_ReportCadence ==
    pc \in TrainPcs =>
        /\ ~settings.write_statistics => (reports = <<>> /\ Count(trace, {"report"}) = 0)
        /\ settings.write_statistics =>
              ReportedGroups =
                 {ReportEvery * j : j \in 0..(StatsPassed \div ReportEvery)}
                     \cap 0..StatsPassed
        /\ Len(reports) = Cardinality(ReportedGroups)
        /\ Count(trace, {"report"}) = Len(reports)
        /\ \A k \in 1..Len(reports) :
              reports[k].at = GroupEnd(reports[k].group + 1, Divider, train_len)
        /\ \A p \in 1..Len(trace) :
              trace[p] = "report" =>
                 /\ p > 1 /\ trace[p - 1] \in BackwardEvents
                 /\ p < Len(trace) => trace[p + 1] \in StepEvents

\* a loop of 201 one-batch groups has reported groups 0, 100 and 200 only
C8_Witness ==
    /\ pc = "trained"
    /\ settings.write_statistics
    /\ Divider = 1
    /\ Len(commits) = 201
    /\ ReportedGroups = {0, 100, 200}

\* C9: during a train call global_train_index grows by exactly one on every
\* reporting tick and changes nowhere else (not at epoch boundaries, in the
\* evaluation loop or at a checkpoint save): it never decreases and equals
\* the number of reporting ticks since the call began.
C9_GlobalStep ==
    /\ [](global_train_index = ticks)
    /\ [][\/ pc' = "new"
          \/ global_train_index' = global_train_index /\ reports' = reports
               /\ ticks' = ticks
          \/ /\ pc = "tl_stats"
             /\ global_train_index' = global_train_index + 1
             /\ Len(reports') = Len(reports) + 1
             /\ ticks' = ticks + 1
          \/ /\ pc \in {"epoch", "trained"}
             /\ reports' = <<>>
             /\ global_train_index' = global_train_index
             /\ ticks' = ticks]_vars

\* the second epoch of a call has made the call's second report
C9_Witness ==
    /\ pc = "te_batch"
    /\ Len(epochs_run) = 2
    /\ global_train_index = 2
    /\ ticks = 2

\* C10 (as stated): the counter batches_num dividing the epoch's test loss and
\* F1 equals the number of groups over the evaluation micro-batches,
\* ceil(m/d), so the epoch's F1 is the sum of the normalized contributions
\* divided by that number.
C10_EvaluationGroups ==
    /\ pc \in {"tested", "save"} =>
          batches_num = CeilDiv(test_len, Divider)
    /\ pc = "save" =>
          f1 = Frac(SumSeq(f1Hist), Divider * CeilDiv(test_len, Divider))

\* the raw F1 values of the evaluation micro-batches seen so far are all v
AllScores(v) == \A k \in 1..Len(f1Hist) : f1Hist[k] = v

\* C11 (as stated): for every evaluation loader of m >= 1 micro-batches and
\* every divider, the epoch-level F1 that train computes is 0 when every
\* micro-batch's F1 is 0 and 1 when every micro-batch's F1 is 1, also when m
\* is no multiple of the divider.
C11_F1Extremes ==
    (pc = "save" /\ test_len >= 1) =>
        /\ AllScores(0) => f1 = Zero
        /\ AllScores(1) => f1 = <<1, 1>>

\* the last event of the current epoch
LastEvent == IF trace = <<>> THEN "none" ELSE trace[Len(trace)]

\* the epoch-level scalars written in this call for epoch e
TestScalars(e) ==
    {k \in 1..Len(scalars) :
        scalars[k] \in {<<"Loss/test", e>>, <<"F1/test", e>>}}

\* C12: an evaluation that ends with batches_num = 0 raises the division
\* error of line 162: the quotients of the test loss and of the F1 are only
\* ever taken with a nonzero divisor (no inf or NaN value exists), and after
\* the error the run has failed in that epoch with no test loss or F1 logged
\* and no checkpoint saved for it.
C12_ZeroGroupsRaise ==
    /\ pc \in {"tested", "save"} =>
          /\ batches_num >= 1
          /\ test_loss[2] # 0
          /\ f1[2] # 0
    /\ LastEvent = "test_loop.ZeroDivisionError" =>
          /\ pc = "failed"
          /\ batches_num = 0
          /\ Count(trace, {"eval"}) = test_len
          /\ Count(trace, {"test_loop.return", "log_test", "save_checkpoint"}) = 0
          /\ TestScalars(epoch) = {}
          /\ \A c \in checkpoints : c.epoch # epoch
          /\ \A k \in 1..Len(saved_run) : saved_run[k] # epoch

\* a non-empty evaluation counted no group boundary and the run failed
C12_Witness ==
    /\ pc = "failed"
    /\ LastEvent = "test_loop.ZeroDivisionError"
    /\ test_len = 1
    /\ Divider = 2
    /\ f1 = <<1, 2>>
    /\ checkpoints = {}

\* the sum of the raw losses of the micro-batches with the indices in g (a
\* range of consecutive indices) of the current train_loop
RawLoss(g) ==
    IF g = {} THEN 0
    ELSE LET lo == CHOOSE i \in g : \A j \in g : i <= j
         IN SumSeq(SubSeq(lossHist, lo + 1, lo + Cardinality(g)))

\* the commits of the current train_loop whose optimizer step was skipped
Skipped == {k \in 1..Len(commits) : ~commits[k].applied}

\* C13: under AMP a group whose gradients overflow has its optimizer step
\* skipped and the scale factor reduced, and the loop goes on as for a stepped
\* group: the gradients are cleared, the group counter is incremented, the
\* group accumulator is reset, the group counts in the normalization of the
\* epoch loss, and its micro-batches are not run again.
C13_SkippedStep ==
    pc \in TrainPcs =>
        /\ \A k \in 1..Len(commits) :
              /\ ~commits[k].applied =>
                    /\ commits[k].scaled
                    /\ commits[k].scale[2] < commits[k].scale[1]
              /\ commits[k].applied => commits[k].scale[2] = commits[k].scale[1]
              /\ commits[k].group = k - 1
              /\ commits[k].grads =
                    ((k - 1) * Divider)..(Min(k * Divider, train_len) - 1)
        /\ Len(lossHist) = Count(trace, BackwardEvents)
        /\ Count(trace, StepEvents) = Len(commits)
        /\ pc = "tl_batch" =>
              /\ grads = (Len(commits) * Divider)..(batch_index - 1)
              /\ batch_loss = Frac(RawLoss(grads), Divider)
              /\ real_batch_index = Len(commits)
              /\ Len(lossHist) = batch_index
              /\ Count(trace, {"zero_grad"}) = Len(commits)
        /\ pc = "trained" =>
              /\ Len(lossHist) = train_len
              /\ Len(commits) = CeilDiv(train_len, Divider)
              /\ train_loss = Frac(SumSeq(lossHist), Divider * Len(commits))

\* the first of two groups overflowed, the second was stepped, and the epoch
\* loss is normalized by both
C13_Witness ==
    /\ pc = "trained"
    /\ settings.use_amp
    /\ Skipped = {1}
    /\ Len(commits) = 2
    /\ scaler = InitScale \div 2
    /\ train_len = 2 * Divider
    /\ train_loss = Frac(SumSeq(lossHist), Divider * 2)

\* C14 (as stated): on every reporting tick the loss scalar logged is the mean
\* of the raw losses of the micro-batches of the group being committed, for
\* full groups and for a trailing partial group alike.
C14_ReportedMean ==
    pc \in TrainPcs =>
        \A k \in 1..Len(reports) :
            /\ reports[k].grads # {}
            /\ reports[k].loss =
                  Frac(RawLoss(reports[k].grads), Cardinality(reports[k].grads))

\* C15: a configuration with batch_size // batch_size_divider < 1 fails when
\* the trainer is constructed (the DataLoader refuses the batch size), so no
\* train call, epoch, backward or optimizer step ever runs with it.
C15_MicroBatchSize ==
    (settings.batch_size \div settings.batch_size_divider < 1) =>
        /\ pc \in {"new", "failed"}
        /\ trace = <<>>
        /\ init_flags = <<>>
        /\ epochs_run = <<>>
        /\ commits = <<>>
        /\ lossHist = <<>>
        /\ scalars = <<>>
        /\ saved_run = <<>>
        /\ checkpoints = {}

\* a divider larger than the batch size has been refused at construction
C15_Witness ==
    /\ pc = "failed"
    /\ settings.batch_size = 2
    /\ settings.batch_size_divider = 3
    /\ trace = <<>>
    /\ epochs_run = <<>>

\* the trace p is made of the step pairs of the mixed-precision path: each
\* scaler.step is directly followed by scaler.update, and each scaler.update
\* directly follows a scaler.step
StepThenUpdate(t) ==
    \A p \in 1..Len(t) :
        /\ t[p] = "scaler.step" => (p < Len(t) /\ t[p + 1] = "scaler.update")
        /\ t[p] = "scaler.update" => (p > 1 /\ t[p - 1] = "scaler.step")

\* C16: without AMP train_loop never uses the GradScaler: every backward is
\* loss.backward(), every commit is optimizer.step(), and the scale is the
\* same before and after every commit of the loop; with AMP every backward
\* goes through scaler.scale, every commit is scaler.step directly followed by
\* scaler.update, and optimizer.step is never called directly.
C16_PrecisionPaths ==
    pc \in TrainPcs =>
        /\ ~settings.use_amp =>
              /\ Count(trace, {"scaler.scale.backward", "scaler.step",
                               "scaler.update"}) = 0
              /\ Count(trace, {"loss.backward"}) = Len(lossHist)
              /\ Count(trace, {"optimizer.step"}) = Len(commits)
              /\ \A k \in 1..Len(commits) :
                    /\ ~commits[k].scaled
                    /\ commits[k].scale = <<scaler, scaler>>
        /\ settings.use_amp =>
              /\ Count(trace, {"loss.backward", "optimizer.step"}) = 0
              /\ Count(trace, {"scaler.scale.backward"}) = Len(lossHist)
              /\ Count(trace, {"scaler.step"}) = Len(commits)
              /\ Count(trace, {"scaler.update"}) = Len(commits)
              /\ StepThenUpdate(trace)
              /\ \A k \in 1..Len(commits) : commits[k].scaled

\* a loop of two groups has run without AMP and without touching the scaler
C16_Witness ==
    /\ pc = "trained"
    /\ ~settings.use_amp
    /\ ~settings.write_statistics
    /\ trace = <<"loss.backward", "optimizer.step", "zero_grad",
                 "loss.backward", "optimizer.step", "zero_grad",
                 "train_loop.return">>
    /\ scaler = InitScale

\* C17: self.f1 is reset in every epoch before the epoch's evaluation, so the
\* F1 of an epoch is made of that epoch's evaluation contributions only: the
\* running sum during the evaluation, and the sum divided by batches_num when
\* it is logged, hold nothing of an earlier epoch.
C17_F1PerEpoch ==
    /\ pc \in {"te_batch", "tested"} =>
          /\ Len(f1Hist) = test_index
          /\ f1 = Frac(SumSeq(f1Hist), Divider)
    /\ pc = "save" =>
          /\ Len(f1Hist) = test_len
          /\ f1 = Frac(SumSeq(f1Hist), Divider * batches_num)

\* the second epoch of a run has its F1 ready for the checkpoint, computed
\* from its own two evaluation micro-batches
C17_Witness ==
    /\ pc = "save"
    /\ Len(epochs_run) = 2
    /\ Len(saved_run) = 1
    /\ f1Hist = <<1, 1>>
    /\ batches_num = 1
    /\ f1 = <<1, 1>>

\* C18 (as stated): within one train call no two scalar writes carry the same
\* (tag, step) pair; the per-group loss scalars and the epoch-level loss
\* scalars never collide.
C18_DistinctScalars ==
    \A i, j \in 1..Len(scalars) : i # j => scalars[i] # scalars[j]

\* C19: a report is made before its group's optimizer step and before the
\* gradients are cleared: the gradients it reads are the non-empty gradients
\* of exactly its group, the parameters it reads have had the updates of the
\* earlier groups only, and the loss it reads is the group's accumulator
\* before the reset.
C19_ReportBeforeStep ==
    pc \in TrainPcs =>
        /\ \A k \in 1..Len(reports) :
              /\ reports[k].grads # {}
              /\ reports[k].grads = (reports[k].group * Divider)..reports[k].at
              /\ reports[k].updates = reports[k].group
              /\ reports[k].loss = Frac(RawLoss(reports[k].grads), Divider)
              /\ reports[k].loss # Zero
        /\ \A p \in 1..Len(trace) :
              trace[p] = "report" =>
                 /\ p > 1
                 /\ trace[p - 1] \in BackwardEvents
                 /\ p < Len(trace) => trace[p + 1] \in StepEvents
                 /\ Count(SubSeq(trace, 1, p), StepEvents)
                       = Count(SubSeq(trace, 1, p), {"zero_grad"})

\* the report of group 0 has been made, its step and its clearing still due
C19_Witness ==
    /\ pc = "tl_step"
    /\ Len(reports) = 1
    /\ reports[1].grads = {0, 1}
    /\ reports[1].loss = <<3, 2>>
    /\ grads = {0, 1}
    /\ batch_loss = <<3, 2>>
    /\ commits = <<>>

\* C20: when the training loader yields no micro-batch, no group is closed
\* and train_loop fails dividing by real_batch_index = 0; train ends there,
\* with no optimizer step taken, no evaluation run, nothing logged and no
\* checkpoint saved for that epoch.
C20_EmptyTrainLoader ==
    /\ train_len = 0 =>
          /\ pc \notin {"tl_stats", "tl_step", "tl_clear", "trained",
                        "te_batch", "tested", "save", "done"}
          /\ commits = <<>>
          /\ scalars = <<>>
          /\ saved_run = <<>>
          /\ checkpoints = {}
          /\ Count(trace, TrainEvents \cup {"eval", "save_checkpoint"}) = 0
    /\ LastEvent = "train_loop.ZeroDivisionError" =>
          /\ pc = "failed"
          /\ train_len = 0
          /\ real_batch_index = 0
          /\ trace = <<"train_loop.ZeroDivisionError">>
    /\ pc = "trained" => (real_batch_index >= 1 /\ train_loss[2] # 0)

\* the first epoch failed on an empty training loader, the evaluation loader
\* not being empty
C20_Witness ==
    /\ pc = "failed"
    /\ trace = <<"train_loop.ZeroDivisionError">>
    /\ train_len = 0
    /\ test_len = 2
    /\ epochs_run = <<0>>
    /\ f1Hist = <<>>

====
